---------------------------- MODULE Spec2Model ----------------------------
(***************************************************************************)
(* A model of the test doubles of shiftmanager/tests/conftest.py: the      *)
(* MockCursor behind the mock connection, the MockBucket behind the mock   *)
(* S3 connection, and the patched client methods mogrify and id_cols.      *)
(*                                                                         *)
(* Python strings that the code takes apart or builds (statement templates,*)
(* quoted literals, rendered statements) are sequences of one-character    *)
(* strings.  Strings the code only stores or compares are TLA+ strings.    *)
(* str and bytes are distinct types, as in Python 3, which the decode in   *)
(* mogrify's mapping branch is written for.                                *)
(***************************************************************************)
EXTENDS Integers, Sequences

VARIABLES
    statements,             \* MockCursor.statements
    return_rows,            \* MockCursor.return_rows
    cursor_position,        \* MockCursor.cursor_position
    handle,                 \* the object each way of asking the connection for a cursor gave
    s3keys,                 \* MockBucket.s3keys
    recently_deleted_keys,  \* MockBucket.recently_deleted_keys: <<>> while the attribute is not set
    next_key,               \* identity of the next MagicMock that new_key creates
    bucket,                 \* the object get_bucket gave for each bucket name
    call,                   \* the most recent call: its operation and arguments
    ret,                    \* what the most recent call returned or raised
    execute_calls,          \* the calls the MagicMock standing in for Redshift.execute recorded
    executed,               \* history: <<via, statement>> of every execute, in call order
    fetched,                \* history: every result of fetchone, in call order
    block,                  \* history: where the caller stands relative to a with-block
    new_keys,               \* history: <<keypath, key>> of every new_key since the last reset
    seen                    \* history: one earlier mogrify call, remembered with its outcome

vars == <<statements, return_rows, cursor_position, handle, s3keys,
          recently_deleted_keys, next_key, bucket, call, ret, execute_calls, executed,
          fetched, block, new_keys, seen>>

cursor_vars == <<statements, return_rows, cursor_position>>
conn_vars   == <<handle, executed, fetched, block>>
s3_vars     == <<s3keys, recently_deleted_keys, next_key, bucket, new_keys>>
shift_vars  == <<execute_calls, seen>>

-----------------------------------------------------------------------------
(* Bounds of the model.                                                    *)

MaxStatements == 2      \* executes per run
MaxRows       == 2      \* rows in return_rows
MaxFetches    == 3      \* fetchone calls per run
MaxKeys       == 3      \* new_key calls per run
MaxParams     == 2      \* entries of a mogrify parameters mapping or sequence

Statements == {<<"x">>, <<"y">>}
Rows       == {"r1", "r2"}
Vias       == {"direct", "entered"}
Keypaths   == {"k1", "k2"}
BucketNames == {"b1", "b2"}

\* All sequences over S of length at most n.
SeqsUpTo(S, n) == UNION {[1..k -> S] : k \in 0..n}

-----------------------------------------------------------------------------
(* Values.                                                                 *)

None          == [kind |-> "None", val |-> "None"]
NoHandle      == "no handle"
MockCursorObj == "mock_cursor"
MagicMockObj  == "MagicMock"
MockBucketObj == "mock_bucket"
EmptyDict     == [k \in {} |-> 0]

Called(op, args) == [op |-> op, args |-> args]

-----------------------------------------------------------------------------
(* The mock connection and its MockCursor.                                 *)

\* A faulty ConnCursor: the entered connection's cursor() left unconfigured,
\* so that it returns the MagicMock's default child.
ConnCursor_unconfigured(via) ==
    IF via = "entered" THEN MagicMockObj ELSE MockCursorObj

\* The object connection.cursor() returns: called directly on the mock
\* connection, or on the object that entering the connection yields.
ConnCursor(via) == MockCursorObj

cursor(via) ==
    /\ handle' = [handle EXCEPT ![via] = ConnCursor(via)]
    /\ call' = Called("cursor", <<via>>)
    /\ ret' = [kind |-> "object", val |-> ConnCursor(via)]
    /\ UNCHANGED <<cursor_vars, executed, fetched, block, s3_vars, shift_vars>>

execute(via, statement) ==
    /\ handle[via] = MockCursorObj
    /\ Len(executed) < MaxStatements
    /\ statements' = Append(statements, statement)
    /\ executed' = Append(executed, <<via, statement>>)
    /\ call' = Called("execute", <<statement>>)
    /\ ret' = None
    /\ UNCHANGED <<return_rows, cursor_position, handle, fetched, block, s3_vars, shift_vars>>

\* A faulty fetchone: the exhaustion test is off by one, so the last row is
\* never returned.
fetchone_off_by_one ==
    /\ Len(fetched) < MaxFetches
    /\ IF cursor_position >= Len(return_rows) - 1
         THEN /\ ret' = None
              /\ UNCHANGED cursor_position
         ELSE /\ ret' = [kind |-> "row", val |-> return_rows[cursor_position + 1]]
              /\ cursor_position' = cursor_position + 1
    /\ fetched' = Append(fetched, ret')
    /\ call' = Called("fetchone", <<>>)
    /\ UNCHANGED <<statements, return_rows, handle, executed, block, s3_vars, shift_vars>>

\* A faulty fetchone: the position advances on every call, exhausted or not.
fetchone_overrun ==
    /\ Len(fetched) < MaxFetches
    /\ ret' = IF cursor_position > Len(return_rows) - 1
                THEN None
                ELSE [kind |-> "row", val |-> return_rows[cursor_position + 1]]
    /\ cursor_position' = cursor_position + 1
    /\ fetched' = Append(fetched, ret')
    /\ call' = Called("fetchone", <<>>)
    /\ UNCHANGED <<statements, return_rows, handle, executed, block, s3_vars, shift_vars>>

fetchone ==
    /\ Len(fetched) < MaxFetches
    /\ IF cursor_position > Len(return_rows) - 1
         THEN /\ ret' = None
              /\ UNCHANGED cursor_position
         ELSE /\ ret' = [kind |-> "row", val |-> return_rows[cursor_position + 1]]
              /\ cursor_position' = cursor_position + 1
    /\ fetched' = Append(fetched, ret')
    /\ call' = Called("fetchone", <<>>)
    /\ UNCHANGED <<statements, return_rows, handle, executed, block, s3_vars, shift_vars>>

cursor_enter ==
    /\ call' = Called("__enter__", <<>>)
    /\ ret' = [kind |-> "object", val |-> MockCursorObj]
    /\ block' = "inside"
    /\ UNCHANGED <<cursor_vars, handle, executed, fetched, s3_vars, shift_vars>>

\* A faulty __exit__: leaving the block clears the statement history.
cursor_exit_clearing ==
    /\ call' = Called("__exit__", <<>>)
    /\ ret' = None
    /\ block' = IF block = "inside" THEN "exited" ELSE block
    /\ statements' = <<>>
    /\ UNCHANGED <<return_rows, cursor_position, handle, executed, fetched, s3_vars, shift_vars>>

cursor_exit ==
    /\ call' = Called("__exit__", <<>>)
    /\ ret' = None
    /\ block' = IF block = "inside" THEN "exited" ELSE block
    /\ UNCHANGED <<cursor_vars, handle, executed, fetched, s3_vars, shift_vars>>

cursor_iter ==
    /\ call' = Called("__iter__", <<>>)
    /\ ret' = [kind |-> "rows", val |-> return_rows]
    /\ UNCHANGED <<cursor_vars, conn_vars, s3_vars, shift_vars>>

\* A test appends a row to the cursor's public return_rows list.
append_row(row) ==
    /\ Len(return_rows) < MaxRows
    /\ return_rows' = Append(return_rows, row)
    /\ call' = Called("return_rows.append", <<row>>)
    /\ ret' = None
    /\ UNCHANGED <<statements, cursor_position, conn_vars, s3_vars, shift_vars>>

-----------------------------------------------------------------------------
(* The mock S3 connection and its MockBucket.  The fixture makes one        *)
(* MockBucket, so the dict that the class and the instance share until the  *)
(* first reset is modelled as the one s3keys.                               *)

\* The object mock_S3.get_bucket(name) returns.
GetBucket(name) == MockBucketObj

\* d[k] = v in Python: d with k bound to v, bound before or not.
DictSet(d, k, v) == [x \in DOMAIN d \cup {k} |-> IF x = k THEN v ELSE d[x]]

get_bucket(name) ==
    /\ bucket' = [bucket EXCEPT ![name] = GetBucket(name)]
    /\ call' = Called("get_bucket", <<name>>)
    /\ ret' = [kind |-> "object", val |-> GetBucket(name)]
    /\ UNCHANGED <<cursor_vars, conn_vars, s3keys, recently_deleted_keys,
                   next_key, new_keys, shift_vars>>

new_key(name, keypath) ==
    /\ bucket[name] = MockBucketObj
    /\ next_key <= MaxKeys
    /\ s3keys' = DictSet(s3keys, keypath, next_key)
    /\ next_key' = next_key + 1
    /\ new_keys' = Append(new_keys, <<keypath, next_key>>)
    /\ call' = Called("new_key", <<keypath>>)
    /\ ret' = [kind |-> "key", val |-> next_key]
    /\ UNCHANGED <<cursor_vars, conn_vars, recently_deleted_keys, bucket, shift_vars>>

\* A faulty delete_keys: the keys are also removed from s3keys.
delete_keys_removing(name, keys) ==
    /\ bucket[name] = MockBucketObj
    /\ recently_deleted_keys' = <<keys>>
    /\ s3keys' = [k \in DOMAIN s3keys \ keys |-> s3keys[k]]
    /\ call' = Called("delete_keys", <<keys>>)
    /\ ret' = None
    /\ UNCHANGED <<cursor_vars, conn_vars, next_key, bucket, new_keys, shift_vars>>

delete_keys(name, keys) ==
    /\ bucket[name] = MockBucketObj
    /\ recently_deleted_keys' = <<keys>>
    /\ call' = Called("delete_keys", <<keys>>)
    /\ ret' = None
    /\ UNCHANGED <<cursor_vars, conn_vars, s3keys, next_key, bucket, new_keys, shift_vars>>

reset(name) ==
    /\ bucket[name] = MockBucketObj
    /\ s3keys' = EmptyDict
    /\ recently_deleted_keys' = <<{}>>
    /\ new_keys' = <<>>
    /\ call' = Called("reset", <<>>)
    /\ ret' = None
    /\ UNCHANGED <<cursor_vars, conn_vars, next_key, bucket, shift_vars>>

-----------------------------------------------------------------------------
(* The Python values mogrify handles.  A dict keeps its entries, <<key,     *)
(* value>> pairs, in insertion order.                                       *)

PyNone        == [kind |-> "None",  text |-> <<>>, items |-> <<>>]
PyInt(digits) == [kind |-> "int",   text |-> digits, items |-> <<>>]
PyStr(text)   == [kind |-> "str",   text |-> text, items |-> <<>>]
PyBytes(text) == [kind |-> "bytes", text |-> text, items |-> <<>>]
PyList(items) == [kind |-> "list",  text |-> <<>>, items |-> items]
PyDict(items) == [kind |-> "dict",  text |-> <<>>, items |-> items]

Returned(text) == [kind |-> "str", val |-> text]
Raised(error)  == [kind |-> error, val |-> <<>>]

Chars(text) == {text[i] : i \in 1..Len(text)}

RECURSIVE Joined(_, _)
Joined(parts, sep) ==
    IF parts = <<>> THEN <<>>
    ELSE IF Len(parts) = 1 THEN parts[1]
    ELSE parts[1] \o sep \o Joined(Tail(parts), sep)

\* text with every character c replaced by with where c = what.
RECURSIVE Replaced(_, _, _)
Replaced(text, what, with) ==
    IF text = <<>> THEN <<>>
    ELSE (IF Head(text) = what THEN with ELSE <<Head(text)>>)
             \o Replaced(Tail(text), what, with)

\* psycopg2.extensions.adapt(val).getquoted(): the SQL literal of val.  A
\* number is its digits, None is NULL, a string is put between single quotes
\* with each single quote in it doubled.
getquoted(val) ==
    CASE val.kind = "int"  -> val.text
      [] val.kind = "None" -> <<"N", "U", "L", "L">>
      [] val.kind = "str"  -> <<"'">> \o Replaced(val.text, "'", <<"'", "'">>) \o <<"'">>

\* repr of the characters of a str or bytes (printable, no backslash): between
\* double quotes when it holds a single quote and no double quote, otherwise
\* between single quotes with each single quote escaped.
ReprText(text) ==
    IF "'" \in Chars(text) /\ "\"" \notin Chars(text)
      THEN <<"\"">> \o text \o <<"\"">>
      ELSE <<"'">> \o Replaced(text, "'", <<"\\", "'">>) \o <<"'">>

ReprAtom(v) ==
    IF v.kind = "bytes" THEN <<"b">> \o ReprText(v.text) ELSE ReprText(v.text)

\* repr of a str, a bytes, or a list or dict of them.
repr(v) ==
    CASE v.kind = "list" ->
           <<"[">> \o Joined([i \in 1..Len(v.items) |-> ReprAtom(v.items[i])],
                             <<",", " ">>) \o <<"]">>
      [] v.kind = "dict" ->
           <<"{">> \o Joined([i \in 1..Len(v.items) |->
                                 ReprAtom(v.items[i][1]) \o <<":", " ">>
                                     \o ReprAtom(v.items[i][2])],
                             <<",", " ">>) \o <<"}">>
      [] OTHER -> ReprAtom(v)

\* str(v), which the %s conversion applies to its argument.
str(v) == IF v.kind = "str" THEN v.text ELSE repr(v)

\* if v: a container or string is true when it is not empty, None is false.
Truthy(v) == Len(v.items) > 0 \/ Len(v.text) > 0

IsMapping(v)  == v.kind = "dict"
IsSequence(v) == v.kind \in {"list", "tuple"}

-----------------------------------------------------------------------------
(* batch % parameters, for parameters a list or a dict: either can be       *)
(* subscripted, so the % operator takes it both as the mapping of           *)
(* %(name)s conversions and as the single positional argument.  Conversions *)
(* carry no flags, width or precision.                                      *)

\* The index of the ")" that closes a format key starting at fmt[i], or 0.
RECURSIVE KeyEnd(_, _, _)
KeyEnd(fmt, i, depth) ==
    IF i > Len(fmt) THEN 0
    ELSE IF fmt[i] = ")"
      THEN IF depth = 1 THEN i ELSE KeyEnd(fmt, i + 1, depth - 1)
    ELSE IF fmt[i] = "(" THEN KeyEnd(fmt, i + 1, depth + 1)
    ELSE KeyEnd(fmt, i + 1, depth)

\* mapping[key] with key a str: a list takes only integer subscripts, a dict
\* raises KeyError for a key it does not hold.
GetItem(mapping, key) ==
    IF mapping.kind = "list" THEN Raised("TypeError")
    ELSE LET at == {i \in 1..Len(mapping.items) : mapping.items[i][1].text = key}
         IN  IF at = {} THEN Raised("KeyError")
             ELSE [kind |-> "value", val |-> mapping.items[CHOOSE i \in at : TRUE][2]]

\* Format scans fmt from position i.  args is the argument the next conversion
\* takes and used tells whether a conversion already took it; a %(name)
\* replaces args by mapping[name], not yet used.  Convert handles the
\* conversion character at fmt[i].
RECURSIVE Format(_, _, _, _, _, _)
RECURSIVE Convert(_, _, _, _, _, _)
Format(fmt, i, mapping, args, used, out) ==
    IF i > Len(fmt) THEN Returned(out)
    ELSE IF fmt[i] # "%" THEN Format(fmt, i + 1, mapping, args, used, Append(out, fmt[i]))
    ELSE IF i + 1 > Len(fmt) THEN Raised("ValueError")
    ELSE IF fmt[i + 1] = "("
      THEN LET close == KeyEnd(fmt, i + 2, 1)
               got   == GetItem(mapping, SubSeq(fmt, i + 2, close - 1))
           IN  IF close = 0 THEN Raised("ValueError")
               ELSE IF got.kind # "value" THEN got
               ELSE Convert(fmt, close + 1, mapping, got.val, FALSE, out)
    ELSE Convert(fmt, i + 1, mapping, args, used, out)

Convert(fmt, i, mapping, args, used, out) ==
    IF i > Len(fmt) THEN Raised("ValueError")
    ELSE IF fmt[i] = "%" THEN Format(fmt, i + 1, mapping, args, used, Append(out, "%"))
    ELSE IF used THEN Raised("TypeError")
    ELSE IF fmt[i] = "s" THEN Format(fmt, i + 1, mapping, args, TRUE, out \o str(args))
    ELSE Raised("ValueError")

PercentFormat(fmt, args) == Format(fmt, 1, args, args, FALSE, <<>>)

-----------------------------------------------------------------------------
(* Inputs of mogrify and id_cols.                                          *)

IntVal == PyInt(<<"7">>)
StrVal == PyStr(<<"o", "'", "k">>)
Values == {IntVal, StrVal}
Names  == <<PyStr(<<"k">>), PyStr(<<"j">>)>>

\* "%s", "%s,%s", "%(k)s" and "%(k)s,%(j)s"
Templates ==
    { <<"%", "s">>,
      <<"%", "s", ",", "%", "s">>,
      <<"%", "(", "k", ")", "s">>,
      <<"%", "(", "k", ")", "s", ",", "%", "(", "j", ")", "s">> }

MaxNames == IF MaxParams < Len(Names) THEN MaxParams ELSE Len(Names)

\* None; every list of at most MaxParams values; every dict binding the
\* first n names, n <= MaxParams, to values.
Parameters ==
    {PyNone}
      \cup {PyList(vs) : vs \in SeqsUpTo(Values, MaxParams)}
      \cup {PyDict([i \in 1..Len(vs) |-> <<Names[i], vs[i]>>]) :
               vs \in SeqsUpTo(Values, MaxNames)}

TableNames == {"my_identity_table", "other_table", ""}

-----------------------------------------------------------------------------
(* The methods patched onto the Redshift client.                           *)

\* parameters after the isinstance branches: a mapping becomes a dict of
\* decoded literals, a sequence a list of undecoded (bytes) literals.
Adapted(parameters) ==
    IF IsMapping(parameters)
      THEN PyDict([i \in 1..Len(parameters.items) |->
                     <<parameters.items[i][1],
                       PyStr(getquoted(parameters.items[i][2]))>>])
    ELSE IF IsSequence(parameters)
      THEN PyList([i \in 1..Len(parameters.items) |->
                     PyBytes(getquoted(parameters.items[i]))])
    ELSE parameters

\* What mogrify(batch, parameters) returns or raises.
Mogrified(batch, parameters) ==
    IF Truthy(Adapted(parameters))
      THEN PercentFormat(batch, Adapted(parameters))
      ELSE Returned(batch)

\* Mogrified over the inputs of the model, computed once.
MogrifiedOf == [batch \in Templates, parameters \in Parameters |->
                   Mogrified(batch, parameters)]

\* A faulty mogrify: the string that is formatted is the statement the cursor
\* executed last, whenever there is one, instead of batch.
mogrify_from_cursor(batch, parameters, execute_arg) ==
    /\ call' = Called("mogrify", <<batch, parameters, execute_arg>>)
    /\ ret' = IF statements = <<>>
                THEN Mogrified(batch, parameters)
                ELSE Mogrified(statements[Len(statements)], parameters)
    /\ UNCHANGED <<cursor_vars, conn_vars, s3_vars, shift_vars>>

\* execute_arg is the execute argument: the name execute is the cursor's method.
mogrify(batch, parameters, execute_arg) ==
    /\ call' = Called("mogrify", <<batch, parameters, execute_arg>>)
    /\ ret' = MogrifiedOf[batch, parameters]
    /\ UNCHANGED <<cursor_vars, conn_vars, s3_vars, shift_vars>>

id_cols(table_name) ==
    /\ call' = Called("id_cols", <<table_name>>)
    /\ ret' = IF table_name = "my_identity_table"
                THEN [kind |-> "set", val |-> {"id_col"}]
                ELSE None
    /\ UNCHANGED <<cursor_vars, conn_vars, s3_vars, shift_vars>>

\* History: remember the mogrify call just made, with its outcome and whether
\* the cursor had recorded no statement yet.
remember ==
    /\ call.op = "mogrify"
    /\ seen = <<>>
    /\ seen' = <<[batch |-> call.args[1], parameters |-> call.args[2],
                  ret |-> ret, fresh |-> statements = <<>>]>>
    /\ UNCHANGED <<cursor_vars, conn_vars, s3_vars, call, ret, execute_calls>>

-----------------------------------------------------------------------------
(* Specifications.                                                         *)

InitCursor ==
    /\ statements = <<>>
    /\ return_rows = <<>>
    /\ cursor_position = 0

InitRest ==
    /\ handle = [via \in Vias |-> NoHandle]
    /\ s3keys = EmptyDict
    /\ recently_deleted_keys = <<>>
    /\ next_key = 1
    /\ bucket = [name \in BucketNames |-> NoHandle]
    /\ call = Called("fixture", <<>>)
    /\ ret = None
    /\ execute_calls = <<>>
    /\ executed = <<>>
    /\ fetched = <<>>
    /\ block = "outside"
    /\ new_keys = <<>>
    /\ seen = <<>>

Init == InitCursor /\ InitRest

CursorOp ==
    \/ \E via \in Vias : cursor(via)
    \/ \E via \in Vias, statement \in Statements : execute(via, statement)
    \/ fetchone
    \/ cursor_enter
    \/ cursor_exit
    \/ cursor_iter

Next ==
    \/ CursorOp
    \/ \E row \in Rows : append_row(row)

Spec == Init /\ [][Next]_vars

\* A cursor whose return_rows a test has set to a fixed list before fetching.
InitFixed ==
    /\ statements = <<>>
    /\ return_rows \in SeqsUpTo(Rows, MaxRows)
    /\ cursor_position = 0
    /\ InitRest

SpecFixed == InitFixed /\ [][CursorOp]_vars

NextS3 ==
    \/ \E name \in BucketNames : get_bucket(name)
    \/ \E name \in BucketNames, keypath \in Keypaths : new_key(name, keypath)
    \/ \E name \in BucketNames, keys \in SUBSET Keypaths : delete_keys(name, keys)
    \/ \E name \in BucketNames : reset(name)

SpecS3 == Init /\ [][NextS3]_vars

ShiftOp ==
    \/ \E batch \in Templates, parameters \in Parameters, execute_arg \in BOOLEAN :
           mogrify(batch, parameters, execute_arg)
    \/ \E table_name \in TableNames : id_cols(table_name)

NextShift ==
    \/ ShiftOp
    \/ \E via \in Vias : cursor(via)
    \/ \E via \in Vias, statement \in Statements : execute(via, statement)
    \/ fetchone

SpecShift == Init /\ [][NextShift]_vars

\* mogrify called twice or more, as tests call it (execute left at its default),
\* with statements executed on the cursor in between.
NextDet ==
    \/ \E batch \in Templates, parameters \in Parameters :
           mogrify(batch, parameters, FALSE)
    \/ remember
    \/ cursor("direct")
    \/ execute("direct", <<"x">>)

SpecDet == Init /\ [][NextDet]_vars

-----------------------------------------------------------------------------
(* Claims about the cursor.                                                *)

\* C1: with return_rows a fixed list of n rows, the i-th fetchone returns
\* row i (in list order, each once) for i <= n and None for every i > n,
\* whatever execute, __enter__, __exit__ and __iter__ calls come in between.
C1_FetchInOrderThenNone ==
    \A i \in 1..Len(fetched) :
        fetched[i] = IF i <= Len(return_rows)
                       THEN [kind |-> "row", val |-> return_rows[i]]
                       ELSE None

\* Every row was fetched, a fetch after exhaustion happened, and executes
\* and a with-block were interleaved.
C1_Witness ==
    /\ Len(return_rows) >= 2
    /\ Len(fetched) > Len(return_rows)
    /\ Len(statements) > 0
    /\ block = "exited"

\* C2: cursor_position never decreases from one state to the next and
\* always satisfies 0 <= cursor_position <= len(return_rows), under every
\* cursor operation and appends to return_rows.
C2_PositionMonotoneBounded ==
    /\ [](0 <= cursor_position /\ cursor_position <= Len(return_rows))
    /\ [][cursor_position' >= cursor_position]_vars

\* The position stands at the end of a list that was appended to after an
\* exhausted fetch.
C2_Witness ==
    /\ cursor_position = Len(return_rows)
    /\ cursor_position >= 2
    /\ \E i \in 1..Len(fetched) : fetched[i] = None /\ i < Len(fetched)

\* C8: every cursor handle the mock connection gives out is the one
\* MockCursor, its statements list is exactly the statements passed to
\* execute through any handle in call order, and execute changes neither
\* return_rows nor cursor_position.
C8_OneCursorRecordsAll ==
    /\ [](\A via \in Vias : handle[via] # NoHandle => handle[via] = MockCursorObj)
    /\ [](statements = [i \in 1..Len(executed) |-> executed[i][2]])
    /\ [][call'.op = "execute" => UNCHANGED <<return_rows, cursor_position>>]_vars

\* Two different statements went in through different handles, with rows
\* partly consumed.
C8_Witness ==
    /\ Len(executed) >= 2
    /\ executed[1][1] # executed[2][1]
    /\ executed[1][2] # executed[2][2]
    /\ call.op = "execute"
    /\ cursor_position > 0

\* C9: __enter__ returns the cursor itself; __enter__ and __exit__ leave
\* statements, return_rows and cursor_position unchanged; after __exit__
\* execute and fetchone still work.
C9_BlockLeavesCursorAlone ==
    /\ [][(call'.op = "__enter__" =>
               /\ ret' = [kind |-> "object", val |-> MockCursorObj]
               /\ UNCHANGED cursor_vars)
          /\ (call'.op = "__exit__" => UNCHANGED cursor_vars)]_vars
    /\ [](block = "exited" /\ Len(fetched) < MaxFetches => ENABLED fetchone)
    /\ [](block = "exited" /\ Len(executed) < MaxStatements
             => \A via \in Vias : handle[via] = MockCursorObj
                   => ENABLED execute(via, <<"x">>))

\* After the block a row is fetched, with a statement recorded before the exit
\* still there.
C9_Witness ==
    /\ block = "exited"
    /\ call.op = "fetchone"
    /\ ret.kind = "row"
    /\ Len(statements) > 0

-----------------------------------------------------------------------------
(* Claims about the bucket.                                                *)

\* The key that the most recent new_key(keypath) since the last reset returned.
LatestKey(keypath) ==
    LET at == {i \in 1..Len(new_keys) : new_keys[i][1] = keypath}
        last == CHOOSE i \in at : \A j \in at : j <= i
    IN  new_keys[last][2]

\* C10: get_bucket gives the same MockBucket for every name; the keys of
\* s3keys are exactly the keypaths passed to new_key since the last reset,
\* each bound to the key the most recent new_key for it returned; and
\* delete_keys only records its argument as recently_deleted_keys, removing
\* nothing from s3keys.
C10_KeysSinceReset ==
    /\ [](\A name \in BucketNames : bucket[name] # NoHandle => bucket[name] = MockBucketObj)
    /\ [](/\ DOMAIN s3keys = {new_keys[i][1] : i \in 1..Len(new_keys)}
          /\ \A k \in DOMAIN s3keys : s3keys[k] = LatestKey(k))
    /\ [][call'.op = "delete_keys" =>
              /\ s3keys' = s3keys
              /\ recently_deleted_keys' = <<call'.args[1]>>]_vars

\* A keypath was given a second key, and delete_keys was then called on keys
\* that s3keys holds.
C10_Witness ==
    /\ call.op = "delete_keys"
    /\ call.args[1] \cap DOMAIN s3keys # {}
    /\ \E i, j \in 1..Len(new_keys) : i < j /\ new_keys[i][1] = new_keys[j][1]
    /\ \A name \in BucketNames : bucket[name] = MockBucketObj

-----------------------------------------------------------------------------
(* Claims about the patched client methods.                                *)

\* The placeholders of a template from position i on, in order: each with its
\* name, empty for a positional %s.
RECURSIVE Placeholders(_, _)
Placeholders(fmt, i) ==
    IF i >= Len(fmt) THEN <<>>
    ELSE IF fmt[i] = "%" /\ fmt[i + 1] = "("
      THEN <<SubSeq(fmt, i + 2, KeyEnd(fmt, i + 2, 1) - 1)>>
               \o Placeholders(fmt, KeyEnd(fmt, i + 2, 1) + 2)
    ELSE IF fmt[i] = "%" /\ fmt[i + 1] = "s"
      THEN <<(<<>>)>> \o Placeholders(fmt, i + 2)
    ELSE Placeholders(fmt, i + 1)

NamedIn(batch)      == {name \in Chars(Placeholders(batch, 1)) : name # <<>>}
PositionalIn(batch) == Len(SelectSeq(Placeholders(batch, 1), LAMBDA name : name = <<>>))
KeysOf(parameters)  == {parameters.items[i][1].text : i \in 1..Len(parameters.items)}

\* The parameter a named placeholder stands for.
ValueOf(parameters, name) ==
    parameters.items[CHOOSE i \in 1..Len(parameters.items) :
                        parameters.items[i][1].text = name][2]

\* The template from position i on with each placeholder replaced by the SQL
\* literal of its parameter; n positional placeholders came before.
RECURSIVE Substituted(_, _, _, _)
Substituted(fmt, i, parameters, n) ==
    IF i > Len(fmt) THEN <<>>
    ELSE IF i < Len(fmt) /\ fmt[i] = "%" /\ fmt[i + 1] = "("
      THEN getquoted(ValueOf(parameters, SubSeq(fmt, i + 2, KeyEnd(fmt, i + 2, 1) - 1)))
               \o Substituted(fmt, KeyEnd(fmt, i + 2, 1) + 2, parameters, n)
    ELSE IF i < Len(fmt) /\ fmt[i] = "%" /\ fmt[i + 1] = "s"
      THEN getquoted(parameters.items[n + 1])
               \o Substituted(fmt, i + 2, parameters, n + 1)
    ELSE <<fmt[i]>> \o Substituted(fmt, i + 1, parameters, n)

\* parameters has the shape the template's placeholders ask for: a mapping
\* that binds every name of a template of %(name)s placeholders, or a sequence
\* with one parameter for each %s of a template of %s placeholders.
ShapesMatch(batch, parameters) ==
    \/ /\ IsMapping(parameters)
       /\ PositionalIn(batch) = 0
       /\ NamedIn(batch) # {}
       /\ NamedIn(batch) \subseteq KeysOf(parameters)
    \/ /\ IsSequence(parameters)
       /\ NamedIn(batch) = {}
       /\ PositionalIn(batch) >= 1
       /\ PositionalIn(batch) = Len(parameters.items)

\* A non-empty sequence for a template with named placeholders, or a
\* non-empty mapping for a template with positional placeholders.
ShapesMismatch(batch, parameters) ==
    \/ IsSequence(parameters) /\ parameters.items # <<>> /\ NamedIn(batch) # {}
    \/ IsMapping(parameters) /\ parameters.items # <<>> /\ PositionalIn(batch) > 0

\* C3: mogrify(batch, parameters) returns the template with every placeholder
\* replaced by the SQL literal of its parameter, for a mapping with
\* %(name)s placeholders and for a sequence with one parameter per %s.
C3_RendersEveryPlaceholder ==
    call.op = "mogrify" /\ ShapesMatch(call.args[1], call.args[2])
        => ret = Returned(Substituted(call.args[1], 1, call.args[2], 0))

\* C4: mogrify raises a type error whenever the shape of parameters does not
\* match the template: a non-empty sequence for named placeholders, a
\* non-empty mapping for positional ones.
C4_MismatchIsTypeError ==
    call.op = "mogrify" /\ ShapesMismatch(call.args[1], call.args[2])
        => ret.kind = "TypeError"

\* C5: mogrify executes the rendered statement if and only if it is called
\* with execute=True; without it the cursor's statements, return_rows and
\* cursor_position (and the record of executed statements) stay as they were.
C5_ExecutesIffAsked ==
    [][call'.op = "mogrify" /\ ret'.kind = "str" =>
          IF call'.args[3]
            THEN \/ statements' = Append(statements, ret'.val)
                 \/ execute_calls' = Append(execute_calls, ret'.val)
            ELSE UNCHANGED <<cursor_vars, execute_calls>>]_vars

\* C6: id_cols returns {id_col} for my_identity_table and an empty set for
\* every other table name.
C6_IdColsIsASet ==
    call.op = "id_cols" =>
        /\ ret.kind = "set"
        /\ ret.val = IF call.args[1] = "my_identity_table" THEN {"id_col"} ELSE {}

=============================================================================
